---- MODULE Spec2Model ----
(***************************************************************************)
(* pyChess (src/pyChess.py): the board, the per-piece move rules, the      *)
(* attack detection, Piece.move, CommandMove.execute and the Game.run      *)
(* loop with its draw / mate classification.                               *)
(*                                                                         *)
(* A tile is <<row, col>> (Tile.row, Tile.col), a piece is a record        *)
(* [name, player, moved]; players are the indices 0 and 1 of Game.players. *)
(* "moved" is Pawn: not _firstmove, Rook/King: _has_moved, Queen: whether  *)
(* the attribute _has_moved exists (Queen.__init__ does not create it,     *)
(* Rook.post_move_action, which Queen inherits, does).                     *)
(***************************************************************************)
EXTENDS Integers, Sequences, FiniteSets, TLC

VARIABLES
    board,          \* Game.board: tile -> piece or None
    currentPlayer,  \* Game._currentPlayer
    enPassant,      \* Game._en_passant_target_tile (NoTile for None)
    halfmoveClock,  \* Game._halfmove_clock
    history,        \* Game._position_history: position hash -> count
    run,            \* Game._run
    pc,             \* where Game.run stands: "loop", "input", "promote", "stopped"
    promoTile,      \* the tile promote_pawn is asking about (NoTile if none)
    result,         \* what Game.run printed when it stopped ("InProgress" before)
    last,           \* the last command: [cmd, from, to, outcome, choice], choice
                    \* the last answer given to promote_pawn during it
    pre,            \* board, side to move, target and clock when the last command started
    applied,        \* number of applied moves so far
    failed,         \* number of commands so far that were not an applied move
    tileGame,       \* Tile.game of the board's tiles: Self while it is the running
                    \* Game, else the _en_passant_target_tile of the Game object
                    \* that CommandLoad unpickled (nothing ever writes to it again)
    saved,          \* the file CommandSave wrote: <<>> or <<the pickled game>>
    players         \* Game.players: 0 for the two Player objects Game.__init__
                    \* made, n for the two that the n-th load unpickled

vars == <<board, currentPlayer, enPassant, halfmoveClock, history, run, pc,
          promoTile, result, last, pre, applied, failed, tileGame, saved, players>>

----------------------------------------------------------------------------
(* Bounds of the model. *)

\* at most this many commands of one game are not an applied move
MaxFailed == 2

\* the same for the games of SpecCastling, which are longer
MaxCastlingFailed == 1

\* the same for the games of SpecClock and SpecMate, which branch more
MaxClockFailed == 1
MaxMateFailed == 1

\* the same for the games of SpecClassify, which are the longest
MaxClassifyFailed == 0

\* the same for the games of SpecPromotion
MaxPromotionFailed == 1

\* the positions of SpecMaterial hold the kings and at most this many pieces
MaxExtra == 2

\* the bound of MaxFailed for the games of SpecKings
MaxKingsFailed == 1

\* the same for the games of SpecSaveLoad, which need a save and a load
MaxSaveLoadFailed == 2

\* the same for the positions of SpecRays
MaxRaysFailed == 1

\* the same for the games of SpecPawns
MaxPawnsFailed == 1

\* the same for the games of SpecStuck
MaxStuckFailed == 1

----------------------------------------------------------------------------
(* Data *)

Rows == 0 .. 7
Tiles == Rows \X Rows
NoTile == <<-1, -1>>
\* Tile.game is the running Game itself
Self == <<-2, -2>>

None == [name |-> "-", player |-> -1, moved |-> FALSE]

Pawn(p) == [name |-> "P", player |-> p, moved |-> FALSE]
Knight(p) == [name |-> "N", player |-> p, moved |-> FALSE]
Bishop(p) == [name |-> "B", player |-> p, moved |-> FALSE]
Rook(p) == [name |-> "R", player |-> p, moved |-> FALSE]
Queen(p) == [name |-> "Q", player |-> p, moved |-> FALSE]
King(p) == [name |-> "K", player |-> p, moved |-> FALSE]

\* Player.direction of Game.players[p]
direction(p) == IF p = 0 THEN 1 ELSE -1

get_opponent(p) == (p + 1) % 2

Abs(x) == IF x < 0 THEN -x ELSE x

\* isinstance(piece, Rook): Queen derives from Rook
IsRookInstance(piece) == piece.name \in {"R", "Q"}

\* Tile.get_tile(col, row): the tile at that offset, None off the board
get_tile(t, dc, dr) ==
    IF t[1] + dr \in Rows /\ t[2] + dc \in Rows
    THEN <<t[1] + dr, t[2] + dc>>
    ELSE NoTile

\* StartPositionBuilder.set_default_position on the empty board of _init_board
BackRank(p) == <<Rook(p), Knight(p), Bishop(p), King(p), Queen(p),
                 Bishop(p), Knight(p), Rook(p)>>

StartBoard ==
    [t \in Tiles |->
        CASE t[1] = 0 -> BackRank(0)[t[2] + 1]
          [] t[1] = 1 -> Pawn(0)
          [] t[1] = 6 -> Pawn(1)
          [] t[1] = 7 -> BackRank(1)[t[2] + 1]
          [] OTHER -> None]

----------------------------------------------------------------------------
(* Piece rules.  g is the game as the rules read it: [board, ep], the      *)
(* tiles' pieces and Game._en_passant_target_tile.  self is always the     *)
(* piece on fromTile.                                                      *)

Game(b, ep) == [board |-> b, ep |-> ep]

\* "toTile.piece == None or toTile.piece.player != fromTile.piece.player"
EmptyOrEnemy(g, fromTile, toTile) ==
    \/ g.board[toTile] = None
    \/ g.board[toTile].player # g.board[fromTile].player

KnightOffsets ==
    {<<-1, -2>>, <<1, -2>>, <<2, -1>>, <<2, 1>>,
     <<1, 2>>, <<-1, 2>>, <<-2, 1>>, <<-2, -1>>}

Knight_is_move_allowed(g, fromTile, toTile, simulate) ==
    /\ toTile \in {get_tile(fromTile, o[1], o[2]) : o \in KnightOffsets}
    /\ EmptyOrEnemy(g, fromTile, toTile)

\* a pawn whose double step needs the square it passes to be empty
Pawn_is_move_allowed_ChecksBetween(g, fromTile, toTile, simulate) ==
    LET self == g.board[fromTile]
        d == direction(self.player)
        diagonal == {get_tile(fromTile, -1, d), get_tile(fromTile, 1, d)}
    IN  \/ g.board[toTile] = None /\ get_tile(fromTile, 0, d) = toTile
        \/ /\ ~self.moved
           /\ g.board[toTile] = None
           /\ get_tile(fromTile, 0, 2 * d) = toTile
           /\ g.board[get_tile(fromTile, 0, d)] = None
        \/ /\ g.board[toTile] # None
           /\ g.board[toTile].player # self.player
           /\ toTile \in diagonal
        \/ /\ toTile = g.ep
           /\ g.board[toTile] = None
           /\ toTile \in diagonal

Pawn_is_move_allowed(g, fromTile, toTile, simulate) ==
    LET self == g.board[fromTile]
        d == direction(self.player)
        diagonal == {get_tile(fromTile, -1, d), get_tile(fromTile, 1, d)}
    IN  \/ g.board[toTile] = None /\ get_tile(fromTile, 0, d) = toTile
        \/ /\ ~self.moved
           /\ g.board[toTile] = None
           /\ get_tile(fromTile, 0, 2 * d) = toTile
        \/ /\ g.board[toTile] # None
           /\ g.board[toTile].player # self.player
           /\ toTile \in diagonal
        \/ /\ toTile = g.ep
           /\ g.board[toTile] = None
           /\ toTile \in diagonal

\* a scan that goes on past an occupied square
RECURSIVE RayScan_NoBreak(_, _, _, _, _, _)
RayScan_NoBreak(g, fromTile, toTile, x, y, i) ==
    IF i > 7 THEN FALSE
    ELSE LET tile == get_tile(fromTile, i * x, i * y)
         IN  IF tile = toTile /\ EmptyOrEnemy(g, fromTile, toTile) THEN TRUE
             ELSE RayScan_NoBreak(g, fromTile, toTile, x, y, i + 1)

\* the inner loop "for i in range(1, 8)" of Rook/Bishop.is_move_allowed from
\* step i on, in direction (x, y): TRUE on reaching toTile, FALSE on the break
\* at the first occupied tile or when the range is used up
RECURSIVE RayScan(_, _, _, _, _, _)
RayScan(g, fromTile, toTile, x, y, i) ==
    IF i > 7 THEN FALSE
    ELSE LET tile == get_tile(fromTile, i * x, i * y)
         IN  IF tile = toTile /\ EmptyOrEnemy(g, fromTile, toTile) THEN TRUE
             ELSE IF tile # NoTile /\ g.board[tile] # None THEN FALSE
             ELSE RayScan(g, fromTile, toTile, x, y, i + 1)

RookDirections == {<<1, 0>>, <<-1, 0>>, <<0, 1>>, <<0, -1>>}
BishopDirections == {<<1, 1>>, <<-1, 1>>, <<1, -1>>, <<-1, -1>>}

Rook_is_move_allowed(g, fromTile, toTile, simulate) ==
    \E dir \in RookDirections : RayScan(g, fromTile, toTile, dir[1], dir[2], 1)

Bishop_is_move_allowed(g, fromTile, toTile, simulate) ==
    \E dir \in BishopDirections : RayScan(g, fromTile, toTile, dir[1], dir[2], 1)

Queen_is_move_allowed(g, fromTile, toTile, simulate) ==
    \/ Rook_is_move_allowed(g, fromTile, toTile, simulate)
    \/ Bishop_is_move_allowed(g, fromTile, toTile, simulate)

\* Game.get_king_tile: the first tile, rows then columns, holding player's king
get_king_tile(g, player) ==
    LET kings == {t \in Tiles : g.board[t].name = "K" /\ g.board[t].player = player}
    IN  IF kings = {} THEN NoTile
        ELSE CHOOSE t \in kings :
                \A u \in kings : t[1] < u[1] \/ (t[1] = u[1] /\ t[2] <= u[2])

RECURSIVE is_square_attacked(_, _, _)

\* Game.is_king_in_check
is_king_in_check(g, player) ==
    LET king_tile == get_king_tile(g, player)
    IN  IF king_tile = NoTile THEN FALSE
        ELSE is_square_attacked(g, king_tile, get_opponent(player))

KingOffsets ==
    {<<-1, -1>>, <<-1, 0>>, <<-1, 1>>, <<0, -1>>,
     <<0, 1>>, <<1, -1>>, <<1, 0>>, <<1, 1>>}

\* lines 203-206
King_is_basic_move(g, fromTile, toTile) ==
    /\ toTile \in {get_tile(fromTile, o[1], o[2]) : o \in KingOffsets}
    /\ (g.board[toTile] = None \/ g.board[toTile].player # g.board[fromTile].player)

\* line 210: the request is looked at as a castling
King_castling_shape(g, fromTile, toTile, simulate) ==
    /\ ~simulate
    /\ ~g.board[fromTile].moved
    /\ fromTile[1] = toTile[1]
    /\ Abs(fromTile[2] - toTile[2]) = 2

\* lines 214-222: the tiles the castling branch reads, by side
CastlingPathTiles(fromTile, toTile) ==
    IF toTile[2] > fromTile[2]
    THEN <<get_tile(fromTile, 1, 0), get_tile(fromTile, 2, 0)>>
    ELSE <<get_tile(fromTile, -1, 0), get_tile(fromTile, -2, 0), get_tile(fromTile, -3, 0)>>

CastlingRookTile(fromTile, toTile) ==
    IF toTile[2] > fromTile[2] THEN get_tile(fromTile, 3, 0) ELSE get_tile(fromTile, -4, 0)

CastlingSquareToPass(fromTile, toTile) ==
    IF toTile[2] > fromTile[2] THEN get_tile(fromTile, 1, 0) ELSE get_tile(fromTile, -1, 0)

\* "A.piece is None and B.piece is None ...", left to right with short circuit:
\* "raise" when a tile read is None, else whether all are empty
RECURSIVE PathClear(_, _, _)
PathClear(g, path, i) ==
    IF i > Len(path) THEN "yes"
    ELSE IF path[i] = NoTile THEN "raise"
    ELSE IF g.board[path[i]] # None THEN "no"
    ELSE PathClear(g, path, i + 1)

\* lines 209-227: "yes", "no", or "raise" for the AttributeError of reading
\* .piece of a tile off the board or ._has_moved of a queen that has none
King_is_castling(g, fromTile, toTile, simulate) ==
    IF ~King_castling_shape(g, fromTile, toTile, simulate) THEN "no"
    ELSE IF is_king_in_check(g, g.board[fromTile].player) THEN "no"
    ELSE LET rook_tile == CastlingRookTile(fromTile, toTile)
             path_clear == PathClear(g, CastlingPathTiles(fromTile, toTile), 1)
             opponent == get_opponent(g.board[fromTile].player)
         IN  IF path_clear = "raise" THEN "raise"
             ELSE IF path_clear = "no" \/ rook_tile = NoTile THEN "no"
             ELSE IF ~IsRookInstance(g.board[rook_tile]) THEN "no"
             ELSE IF g.board[rook_tile].name = "Q" /\ ~g.board[rook_tile].moved
                  THEN "raise"
             ELSE IF g.board[rook_tile].moved THEN "no"
             ELSE IF /\ ~is_square_attacked(g, CastlingSquareToPass(fromTile, toTile), opponent)
                     /\ ~is_square_attacked(g, toTile, opponent)
                  THEN "yes"
             ELSE "no"

\* lines 232-240: the "distance to other king" test as written, the column of
\* toTile against the ROW of the opponent's king
King_too_close(g, fromTile, toTile) ==
    LET opponent_king_tile == get_king_tile(g, get_opponent(g.board[fromTile].player))
    IN  /\ opponent_king_tile # NoTile
        /\ Abs(toTile[2] - opponent_king_tile[1]) <= 1
        /\ Abs(toTile[1] - opponent_king_tile[1]) <= 1

\* a king for which the shape of a castling is enough to allow it
King_is_move_allowed_AnyCastling(g, fromTile, toTile, simulate) ==
    /\ \/ King_is_basic_move(g, fromTile, toTile)
       \/ King_castling_shape(g, fromTile, toTile, simulate)
    /\ ~King_too_close(g, fromTile, toTile)

\* King.is_move_allowed where it does not raise
King_is_move_allowed(g, fromTile, toTile, simulate) ==
    /\ \/ King_is_basic_move(g, fromTile, toTile)
       \/ King_is_castling(g, fromTile, toTile, simulate) = "yes"
    /\ ~King_too_close(g, fromTile, toTile)

\* whether is_move_allowed raises (only King.is_move_allowed can)
is_move_allowed_raises(g, fromTile, toTile, simulate) ==
    /\ g.board[fromTile].name = "K"
    /\ King_is_castling(g, fromTile, toTile, simulate) = "raise"

\* the dispatch on the class of fromTile.piece
is_move_allowed(g, fromTile, toTile, simulate) ==
    LET name == g.board[fromTile].name
    IN  CASE name = "N" -> Knight_is_move_allowed(g, fromTile, toTile, simulate)
          [] name = "P" -> Pawn_is_move_allowed(g, fromTile, toTile, simulate)
          [] name = "R" -> Rook_is_move_allowed(g, fromTile, toTile, simulate)
          [] name = "B" -> Bishop_is_move_allowed(g, fromTile, toTile, simulate)
          [] name = "Q" -> Queen_is_move_allowed(g, fromTile, toTile, simulate)
          [] name = "K" -> King_is_move_allowed(g, fromTile, toTile, simulate)

\* Game.is_square_attacked
is_square_attacked(g, square, by_player) ==
    \E tile \in Tiles :
        /\ g.board[tile] # None
        /\ g.board[tile].player = by_player
        /\ is_move_allowed(g, tile, square, TRUE)

----------------------------------------------------------------------------
(* Piece.move and the post_move_action hooks *)

\* Python list indexing board[i]: -8..-1 count from the end, anything else
\* outside 0..7 raises IndexError (-1 here)
PyIndex(i) ==
    IF i \in 0 .. 7 THEN i
    ELSE IF i \in -8 .. -1 THEN i + 8
    ELSE -1

NotRaised(b) == [board |-> b, raised |-> FALSE]
Raised(b) == [board |-> b, raised |-> TRUE]

\* Pawn.post_move_action, on the board that already has the pawn on toTile
Pawn_post_move_action(g, fromTile, toTile) ==
    LET b1 == [g.board EXCEPT ![toTile].moved = TRUE]
        row == PyIndex(toTile[1] - direction(g.board[toTile].player))
    IN  IF toTile # g.ep THEN NotRaised(b1)
        ELSE IF row = -1 THEN Raised(b1)
        ELSE NotRaised([b1 EXCEPT ![<<row, toTile[2]>>] = None])

\* Rook.post_move_action, which Queen inherits
Rook_post_move_action(g, fromTile, toTile) ==
    NotRaised([g.board EXCEPT ![toTile].moved = TRUE])

\* "rook_to.piece._has_moved = True": only Rook, Queen and King read the attribute
SetHasMoved(piece) ==
    IF piece.name \in {"R", "Q", "K"} THEN [piece EXCEPT !.moved = TRUE] ELSE piece

\* King.post_move_action
King_post_move_action(g, fromTile, toTile) ==
    LET b1 == [g.board EXCEPT ![toTile].moved = TRUE]
        kingside == toTile[2] > fromTile[2]
        rook_from == IF kingside THEN get_tile(toTile, 1, 0) ELSE get_tile(toTile, -2, 0)
        rook_to == IF kingside THEN get_tile(toTile, -1, 0) ELSE get_tile(toTile, 1, 0)
    IN  IF Abs(fromTile[2] - toTile[2]) # 2 THEN NotRaised(b1)
        ELSE IF rook_from = NoTile \/ rook_to = NoTile THEN Raised(b1)
        ELSE LET b2 == [b1 EXCEPT ![rook_to] = b1[rook_from], ![rook_from] = None]
             IN  IF b2[rook_to] = None THEN Raised(b2)
                 ELSE NotRaised([b2 EXCEPT ![rook_to] = SetHasMoved(b2[rook_to])])

post_move_action(g, fromTile, toTile) ==
    LET name == g.board[toTile].name
    IN  CASE name = "P" -> Pawn_post_move_action(g, fromTile, toTile)
          [] name \in {"R", "Q"} -> Rook_post_move_action(g, fromTile, toTile)
          [] name = "K" -> King_post_move_action(g, fromTile, toTile)
          [] OTHER -> NotRaised(g.board)

\* lines 77-79: the piece put on toTile, fromTile emptied
Relocate(b, fromTile, toTile) ==
    [b EXCEPT ![toTile] = b[fromTile], ![fromTile] = None]

MoveResult(status, b) == [status |-> status, board |-> b]

\* a move that commits without looking at the mover's king
Piece_move_NoCheckTest(g, fromTile, toTile) ==
    IF is_move_allowed_raises(g, fromTile, toTile, FALSE)
    THEN MoveResult("raise", g.board)
    ELSE IF ~is_move_allowed(g, fromTile, toTile, FALSE)
    THEN MoveResult("illegal", g.board)
    ELSE LET post == post_move_action(Game(Relocate(g.board, fromTile, toTile), g.ep),
                                      fromTile, toTile)
         IN  MoveResult(IF post.raised THEN "raise" ELSE "applied", post.board)

\* a move that forgets to put the pieces back when it finds the king in check
Piece_move_NoRevert(g, fromTile, toTile) ==
    IF is_move_allowed_raises(g, fromTile, toTile, FALSE)
    THEN MoveResult("raise", g.board)
    ELSE IF ~is_move_allowed(g, fromTile, toTile, FALSE)
    THEN MoveResult("illegal", g.board)
    ELSE LET b1 == Relocate(g.board, fromTile, toTile)
             post == post_move_action(Game(b1, g.ep), fromTile, toTile)
         IN  IF is_king_in_check(Game(b1, g.ep), g.board[fromTile].player)
             THEN MoveResult("selfCheck", b1)
             ELSE MoveResult(IF post.raised THEN "raise" ELSE "applied", post.board)

\* Piece.move: "applied" (True), "illegal" and "selfCheck" (the two False
\* returns), or "raise" for an exception leaving it, with the tiles' pieces as
\* it leaves them
Piece_move(g, fromTile, toTile) ==
    IF is_move_allowed_raises(g, fromTile, toTile, FALSE)
    THEN MoveResult("raise", g.board)
    ELSE IF ~is_move_allowed(g, fromTile, toTile, FALSE)
    THEN MoveResult("illegal", g.board)
    ELSE LET b1 == Relocate(g.board, fromTile, toTile)
             post == post_move_action(Game(b1, g.ep), fromTile, toTile)
         IN  IF is_king_in_check(Game(b1, g.ep), g.board[fromTile].player)
             THEN MoveResult("selfCheck", g.board)
             ELSE MoveResult(IF post.raised THEN "raise" ELSE "applied", post.board)

----------------------------------------------------------------------------
(* CommandMove.execute *)

\* ord(ch.lower()) for the characters requests are written with
OrdLower ==
    ("a" :> 97) @@ ("b" :> 98) @@ ("c" :> 99) @@ ("d" :> 100) @@ ("e" :> 101) @@
    ("f" :> 102) @@ ("g" :> 103) @@ ("h" :> 104) @@ ("i" :> 105) @@ ("E" :> 101) @@
    ("_" :> 95)

\* a position is <<file, rank>>: the first character and the digit after it.
\* lines 301-302: board[int(pos[1]) - 1][ord(pos[0].lower()) - ord("a")],
\* NoTile when an index raises
ParseTile(pos) ==
    LET row == PyIndex(pos[2] - 1)
        col == PyIndex(OrdLower[pos[1]] - OrdLower["a"])
    IN  IF row = -1 \/ col = -1 THEN NoTile ELSE <<row, col>>

\* line 325: the target a double step leaves
DoubleStepTarget_AtDestination(fromTile, toTile, player) ==
    toTile

DoubleStepTarget(fromTile, toTile, player) ==
    get_tile(fromTile, 0, direction(player))

\* lines 326-327
IsPromotionRow(piece, toTile) ==
    \/ direction(piece.player) = 1 /\ toTile[1] = 7
    \/ direction(piece.player) = -1 /\ toTile[1] = 0

\* a clock that a capture by a piece other than a pawn does not reset
HalfmoveClockAfter_PawnOnly(clock, is_pawn_move, is_capture) ==
    IF is_pawn_move THEN 0 ELSE clock + 1

\* lines 318-321
HalfmoveClockAfter(clock, is_pawn_move, is_capture) ==
    IF is_pawn_move \/ is_capture THEN 0 ELSE clock + 1

Position(b, cur, ep, clock, tg) ==
    [board |-> b, cur |-> cur, ep |-> ep, clock |-> clock, tileGame |-> tg]

\* fromTile.game._en_passant_target_tile (lines 130, 138), given the running
\* Game's target ep and the Game tg the tiles belong to
SeenTarget(ep, tg) == IF tg = Self THEN ep ELSE tg

Outcome(st, outcome, promo) ==
    [board |-> st.board, cur |-> st.cur, ep |-> st.ep, clock |-> st.clock,
     outcome |-> outcome, promo |-> promo]

\* an execute that moves whatever piece stands on the origin
ExecuteOnTiles_NoOwnerTest(st, fromTile, toTile) ==
    LET cleared == [st EXCEPT !.ep = NoTile]
        g == Game(st.board, SeenTarget(NoTile, st.tileGame))
        is_pawn_move == st.board[fromTile].name = "P"
        is_capture == st.board[toTile] # None
        moved == Piece_move(g, fromTile, toTile)
        piece == moved.board[toTile]
        clock == HalfmoveClockAfter(st.clock, is_pawn_move, is_capture)
        target == IF piece.name = "P" /\ Abs(fromTile[1] - toTile[1]) = 2
                  THEN DoubleStepTarget(fromTile, toTile, piece.player)
                  ELSE NoTile
        after == Position(moved.board, st.cur, target, clock, st.tileGame)
    IN  IF st.board[fromTile] = None THEN Outcome(cleared, "noPiece", NoTile)
        ELSE IF moved.status # "applied"
             THEN Outcome([cleared EXCEPT !.board = moved.board],
                          IF moved.status = "raise" THEN "error" ELSE moved.status,
                          NoTile)
        ELSE IF piece.name = "P" /\ IsPromotionRow(piece, toTile)
             THEN Outcome(after, "promote", toTile)
        ELSE Outcome([after EXCEPT !.cur = (st.cur + 1) % 2], "applied", NoTile)

\* lines 304-332 after both tiles were found; the state the command leaves and
\* how it ended.  outcome "promote" is an applied move waiting in promote_pawn.
ExecuteOnTiles(st, fromTile, toTile) ==
    LET cleared == [st EXCEPT !.ep = NoTile]
        g == Game(st.board, SeenTarget(NoTile, st.tileGame))
        is_pawn_move == st.board[fromTile].name = "P"
        is_capture == st.board[toTile] # None
        moved == Piece_move(g, fromTile, toTile)
        piece == moved.board[toTile]
        clock == HalfmoveClockAfter(st.clock, is_pawn_move, is_capture)
        target == IF piece.name = "P" /\ Abs(fromTile[1] - toTile[1]) = 2
                  THEN DoubleStepTarget(fromTile, toTile, piece.player)
                  ELSE NoTile
        after == Position(moved.board, st.cur, target, clock, st.tileGame)
    IN  IF st.board[fromTile] = None THEN Outcome(cleared, "noPiece", NoTile)
        ELSE IF st.board[fromTile].player # st.cur THEN Outcome(cleared, "notOwn", NoTile)
        ELSE IF moved.status # "applied"
             THEN Outcome([cleared EXCEPT !.board = moved.board],
                          IF moved.status = "raise" THEN "error" ELSE moved.status,
                          NoTile)
        ELSE IF piece.name = "P" /\ IsPromotionRow(piece, toTile)
             THEN Outcome(after, "promote", toTile)
        ELSE Outcome([after EXCEPT !.cur = (st.cur + 1) % 2], "applied", NoTile)

\* CommandMove.execute with params = [fromPos, toPos]; an exception of lines
\* 301-302 leaves execute before anything is written
CommandMove_execute(st, fromPos, toPos) ==
    IF ParseTile(fromPos) = NoTile \/ ParseTile(toPos) = NoTile
    THEN Outcome(st, "error", NoTile)
    ELSE ExecuteOnTiles(st, ParseTile(fromPos), ParseTile(toPos))

----------------------------------------------------------------------------
(* Game: the run loop's classification, promotion, has_legal_moves *)

\* Game._get_position_hash: (name, player) per tile, side to move, target.
\* piece.player is a Player object and Player defines no __eq__, so a key
\* matches only a key made of the same objects: gen tells which they are
get_position_hash_of(b, cur, ep, gen) ==
    <<[t \in Tiles |-> <<b[t].name, b[t].player, IF b[t] = None THEN 0 ELSE gen>>],
      cur, ep>>

\* the key of a position held by the Player objects of the running game
get_position_hash(b, cur, ep) == get_position_hash_of(b, cur, ep, players)

\* a count that starts at two
RecordPosition_FromTwo(hist, h) ==
    IF h \in DOMAIN hist THEN [hist EXCEPT ![h] = @ + 1] ELSE hist @@ (h :> 2)

\* line 526
RecordPosition(hist, h) ==
    IF h \in DOMAIN hist THEN [hist EXCEPT ![h] = @ + 1] ELSE hist @@ (h :> 1)

\* a count of the minor pieces that leaves the knights out
has_sufficient_material_BishopsOnly(b) ==
    \/ \E t \in Tiles : b[t].name \in {"P", "R", "Q"}
    \/ Cardinality({t \in Tiles : b[t].name = "B"}) > 1

\* Game._has_sufficient_material
has_sufficient_material(b) ==
    \/ \E t \in Tiles : b[t].name \in {"P", "R", "Q"}
    \/ Cardinality({t \in Tiles : b[t].name \in {"N", "B"}}) > 1

\* a search that is content with a move the rules of the pieces allow
has_legal_moves_Pseudo(g, player) ==
    \E fromTile \in Tiles :
        /\ g.board[fromTile] # None
        /\ g.board[fromTile].player = player
        /\ \E toTile \in Tiles : is_move_allowed(g, fromTile, toTile, TRUE)

\* the k-th tile of "for row in self.board: for tile in row"
TileAt(k) == <<k \div 8, k % 8>>

\* a restore that forgets the piece that stood on the destination
Restore_ForgetsCaptured(b, fromTile, toTile, original_piece) ==
    [b EXCEPT ![fromTile] = b[toTile], ![toTile] = None]

\* lines 592-593: fromTile.piece = toTile.piece; toTile.piece = original_piece
Restore(b, fromTile, toTile, original_piece) ==
    [b EXCEPT ![fromTile] = b[toTile], ![toTile] = original_piece]

\* the first index from j on whose tile passes line 587 for the piece on
\* fromTile, 64 when there is none
NextAllowed(b, ep, fromTile, j) ==
    LET S == {k \in j .. 63 : is_move_allowed(Game(b, ep), fromTile, TileAt(k), TRUE)}
    IN  IF S = {} THEN 64 ELSE CHOOSE k \in S : \A m \in S : k <= m

RECURSIVE SearchTo(_, _, _, _, _)
\* lines 588-596 for the destination of index k: simulate the move, test the
\* king, restore both tiles, return or go on with the next destination
SearchAt(b, ep, player, fromTile, k) ==
    LET original_piece == b[TileAt(k)]
        simulated == Relocate(b, fromTile, TileAt(k))
        restored == Restore(simulated, fromTile, TileAt(k), original_piece)
    IN  IF k = 64 THEN [found |-> FALSE, board |-> b]
        ELSE IF ~is_king_in_check(Game(simulated, ep), player)
             THEN [found |-> TRUE, board |-> restored]
        ELSE SearchTo(restored, ep, player, fromTile, k + 1)

\* lines 585-596, the inner loops from the j-th destination on: whether a legal
\* move of the piece on fromTile was found, and the board the loop leaves
SearchTo(b, ep, player, fromTile, j) ==
    SearchAt(b, ep, player, fromTile, NextAllowed(b, ep, fromTile, j))

\* the first index from i on whose tile passes line 584, 64 when there is none
NextOwn(b, player, i) ==
    LET S == {k \in i .. 63 : b[TileAt(k)] # None /\ b[TileAt(k)].player = player}
    IN  IF S = {} THEN 64 ELSE CHOOSE k \in S : \A m \in S : k <= m

RECURSIVE SearchFrom(_, _, _, _)
\* lines 595-596 after the inner loops of the origin of index k: return True
\* when they found a move, else go on with the next origin
SearchOn(r, ep, player, k) ==
    IF r.found THEN r ELSE SearchFrom(r.board, ep, player, k + 1)

\* lines 584-596 for the origin of index k
SearchOf(b, ep, player, k) ==
    IF k = 64 THEN [found |-> FALSE, board |-> b]
    ELSE SearchOn(SearchTo(b, ep, player, TileAt(k), 0), ep, player, k)

\* lines 582-597, the outer loops from the i-th origin on
SearchFrom(b, ep, player, i) ==
    SearchOf(b, ep, player, NextOwn(b, player, i))

\* Game.has_legal_moves as it runs: its return value and the board it leaves
has_legal_moves_run(g, player) == SearchFrom(g.board, g.ep, player, 0)

\* Game.has_legal_moves: what it returns
has_legal_moves(g, player) == has_legal_moves_run(g, player).found

\* lines 527-545: the board the loop's tests leave; only has_legal_moves
\* writes to it
BoardAfterClassify(count, st) ==
    IF count >= 3 \/ st.clock >= 100 \/ ~has_sufficient_material(st.board)
    THEN st.board
    ELSE has_legal_moves_run(Game(st.board, SeenTarget(st.ep, st.tileGame)), st.cur).board

\* a loop that calls the draw only once the clock is past 100
Classify_FiftyAbove(count, st) ==
    IF count >= 3 THEN "DrawByRepetition"
    ELSE IF st.clock > 100 THEN "DrawByFiftyMove"
    ELSE IF ~has_sufficient_material(st.board) THEN "DrawByInsufficientMaterial"
    ELSE IF ~has_legal_moves(Game(st.board, SeenTarget(st.ep, st.tileGame)), st.cur)
         THEN IF is_king_in_check(Game(st.board, SeenTarget(st.ep, st.tileGame)), st.cur)
              THEN "CheckmateWin"
              ELSE "Stalemate"
    ELSE "InProgress"

\* lines 527-545: what the loop decides once the position is counted
Classify(count, st) ==
    IF count >= 3 THEN "DrawByRepetition"
    ELSE IF st.clock >= 100 THEN "DrawByFiftyMove"
    ELSE IF ~has_sufficient_material(st.board) THEN "DrawByInsufficientMaterial"
    ELSE IF ~has_legal_moves(Game(st.board, SeenTarget(st.ep, st.tileGame)), st.cur)
         THEN IF is_king_in_check(Game(st.board, SeenTarget(st.ep, st.tileGame)), st.cur)
              THEN "CheckmateWin"
              ELSE "Stalemate"
    ELSE "InProgress"

\* choice.upper() for the answers given to promote_pawn
Upper(choice) ==
    CASE choice = "q" -> "Q"
      [] choice = "r" -> "R"
      [] choice = "b" -> "B"
      [] choice = "n" -> "N"
      [] OTHER -> choice

\* a promotion that installs a queen whatever the answer
PromotedPiece_AlwaysQueen(choice, player) ==
    Queen(player)

\* Game.promote_pawn, lines 571-578: the piece an answer installs
PromotedPiece(choice, player) ==
    CASE Upper(choice) = "Q" -> Queen(player)
      [] Upper(choice) = "R" -> Rook(player)
      [] Upper(choice) = "B" -> Bishop(player)
      [] OTHER -> Knight(player)

----------------------------------------------------------------------------
(* The state machine *)

NoPos == <<"-", 0>>

Here == Position(board, currentPlayer, enPassant, halfmoveClock, tileGame)

Init ==
    /\ board = StartBoard
    /\ currentPlayer = 0
    /\ enPassant = NoTile
    /\ halfmoveClock = 0
    /\ history = <<>>
    /\ run = TRUE
    /\ pc = "loop"
    /\ promoTile = NoTile
    /\ result = "InProgress"
    /\ last = [cmd |-> "none", from |-> NoPos, to |-> NoPos, outcome |-> "none",
                choice |-> "-"]
    /\ pre = Position(StartBoard, 0, NoTile, 0, Self)
    /\ applied = 0
    /\ failed = 0
    /\ tileGame = Self
    /\ saved = <<>>
    /\ players = 0

\* a loop that prints the verdict and asks for the next command all the same
TurnStart_GoesOn ==
    /\ pc = "loop"
    /\ \E hist \in {RecordPosition(history,
                                    get_position_hash(board, currentPlayer, enPassant))} :
       \E verdict \in {Classify(hist[get_position_hash(board, currentPlayer, enPassant)],
                                Here)} :
           /\ history' = hist
           /\ result' = verdict
           /\ run' = (verdict = "InProgress")
           /\ pc' = "input"
           /\ board' = BoardAfterClassify(
                            hist[get_position_hash(board, currentPlayer, enPassant)], Here)
    /\ UNCHANGED <<currentPlayer, enPassant, halfmoveClock, promoTile,
                   last, pre, applied, failed, tileGame, saved, players>>

\* Game.run, lines 523-545: the top of one loop iteration, up to the prompt
TurnStart ==
    /\ pc = "loop"
    /\ run
    /\ \E hist \in {RecordPosition(history,
                                    get_position_hash(board, currentPlayer, enPassant))} :
       \E verdict \in {Classify(hist[get_position_hash(board, currentPlayer, enPassant)],
                                Here)} :
           /\ history' = hist
           /\ result' = verdict
           /\ run' = (verdict = "InProgress")
           /\ pc' = IF verdict = "InProgress" THEN "input" ELSE "stopped"
           /\ board' = BoardAfterClassify(
                            hist[get_position_hash(board, currentPlayer, enPassant)], Here)
    /\ UNCHANGED <<currentPlayer, enPassant, halfmoveClock, promoTile,
                   last, pre, applied, failed, tileGame, saved, players>>

\* Game.run, lines 546-553, with the input "move fromPos toPos"
CommandMove(fromPos, toPos) ==
    /\ pc = "input"
    /\ \E r \in {CommandMove_execute(Here, fromPos, toPos)} :
       LET ok == r.outcome \in {"applied", "promote"}
       IN  /\ ok \/ failed < MaxFailed
           /\ board' = r.board
           /\ currentPlayer' = r.cur
           /\ enPassant' = r.ep
           /\ halfmoveClock' = r.clock
           /\ promoTile' = r.promo
           /\ pc' = IF r.outcome = "promote" THEN "promote" ELSE "loop"
           /\ last' = [cmd |-> "move", from |-> fromPos, to |-> toPos,
                       outcome |-> r.outcome, choice |-> "-"]
           /\ applied' = IF ok THEN applied + 1 ELSE applied
           /\ failed' = IF ok THEN failed ELSE failed + 1
    /\ pre' = Here
    /\ UNCHANGED <<history, run, result, tileGame, saved, players>>

\* Game.run with the input "help": CommandHelp.execute only prints
CommandHelp ==
    /\ pc = "input"
    /\ failed < MaxFailed
    /\ pc' = "loop"
    /\ last' = [cmd |-> "help", from |-> NoPos, to |-> NoPos, outcome |-> "none",
                 choice |-> "-"]
    /\ pre' = Here
    /\ failed' = failed + 1
    /\ UNCHANGED <<board, currentPlayer, enPassant, halfmoveClock, history, run,
                   promoTile, result, applied, tileGame, saved, players>>

\* an answer that ends the loop of promote_pawn whatever it is
PromoteAnswerAccepted_Any(choice) ==
    TRUE

\* line 568: the answers that end the loop of promote_pawn
PromoteAnswerAccepted(choice) ==
    Upper(choice) \in {"Q", "R", "B", "N"}

\* Game.promote_pawn answered with choice, then lines 329-332 of the move that
\* is waiting; any other answer is asked again
PromoteChoice(choice) ==
    /\ pc = "promote"
    /\ IF PromoteAnswerAccepted(choice)
       THEN /\ board' = [board EXCEPT
                           ![promoTile] = PromotedPiece(choice, board[promoTile].player)]
            /\ currentPlayer' = (currentPlayer + 1) % 2
            /\ promoTile' = NoTile
            /\ pc' = "loop"
            /\ last' = [last EXCEPT !.outcome = "applied", !.choice = choice]
            /\ UNCHANGED <<enPassant, halfmoveClock, history, run, result, pre,
                           applied, failed, tileGame, saved, players>>
       ELSE /\ last' = [last EXCEPT !.choice = choice]
            /\ UNCHANGED <<board, currentPlayer, enPassant, halfmoveClock, history,
                           run, pc, promoTile, result, pre, applied, failed,
                           tileGame, saved, players>>

\* what pickle.dump(self._game) writes (line 359): the whole Game; its tiles
\* come back pointing at the unpickled copy of the Game they pointed at
Pickled(st) ==
    [board |-> st.board, cur |-> st.cur, ep |-> st.ep, clock |-> st.clock,
     tileGame |-> SeenTarget(st.ep, st.tileGame)]

\* Game.run with the input "save FILENAME": CommandSave.execute
CommandSave ==
    /\ pc = "input"
    /\ failed < MaxFailed
    /\ saved' = <<Pickled(Here)>>
    /\ pc' = "loop"
    /\ last' = [cmd |-> "save", from |-> NoPos, to |-> NoPos, outcome |-> "saved",
                 choice |-> "-"]
    /\ pre' = Here
    /\ failed' = failed + 1
    /\ UNCHANGED <<board, currentPlayer, enPassant, halfmoveClock, history, run,
                   promoTile, result, applied, tileGame, players>>

\* Game.run with the input "load FILENAME": CommandLoad.execute; open() raises
\* when nothing was saved, and lines 377-380 write four attributes
CommandLoad ==
    /\ pc = "input"
    /\ failed < MaxFailed
    /\ IF saved = <<>>
       THEN /\ last' = [cmd |-> "load", from |-> NoPos, to |-> NoPos,
                        outcome |-> "error", choice |-> "-"]
            /\ UNCHANGED <<board, currentPlayer, enPassant, tileGame, players>>
       ELSE /\ board' = saved[1].board
            /\ players' = players + 1
            /\ currentPlayer' = saved[1].cur
            /\ enPassant' = saved[1].ep
            /\ tileGame' = saved[1].tileGame
            /\ last' = [cmd |-> "load", from |-> NoPos, to |-> NoPos,
                        outcome |-> "loaded", choice |-> "-"]
    /\ pc' = "loop"
    /\ pre' = Here
    /\ failed' = failed + 1
    /\ UNCHANGED <<halfmoveClock, history, run, promoTile, result, applied, saved>>

\* the state CommandLoad leaves when it is the first command of a game and
\* the file holds the board b with player 0 to move and no target; failed
\* counts from here
LoadedAtStart(b) ==
    /\ board = b
    /\ currentPlayer = 0
    /\ enPassant = NoTile
    /\ halfmoveClock = 0
    /\ history = RecordPosition(<<>>, get_position_hash_of(StartBoard, 0, NoTile, 0))
    /\ run = TRUE
    /\ pc = "loop"
    /\ promoTile = NoTile
    /\ result = "InProgress"
    /\ last = [cmd |-> "load", from |-> NoPos, to |-> NoPos, outcome |-> "none",
                choice |-> "-"]
    /\ pre = Position(StartBoard, 0, NoTile, 0, Self)
    /\ applied = 0
    /\ failed = 0
    /\ tileGame = NoTile
    /\ saved = <<Pickled(Position(b, 0, NoTile, 0, Self))>>
    /\ players = 1

----------------------------------------------------------------------------
(* Specifications: the game from the start position under a set of requests *)

Req(f1, r1, f2, r2) == <<<<f1, r1>>, <<f2, r2>>>>

\* a check on the first player's king and the answers to it
CheckRequests ==
    {Req("e", 2, "e", 4), Req("d", 2, "d", 3), Req("d", 1, "e", 2),
     Req("g", 2, "g", 4), Req("d", 1, "d", 2),
     Req("f", 7, "f", 5), Req("e", 8, "h", 5)}

Next ==
    \/ TurnStart
    \/ \E r \in CheckRequests : CommandMove(r[1], r[2])

Spec == Init /\ [][Next]_vars

\* double steps, a pawn beside the pawn that double-stepped, a pawn behind a
\* knight, and a request for rank 9
EnPassantRequests ==
    {Req("e", 2, "e", 4), Req("e", 4, "e", 5), Req("e", 5, "f", 6),
     Req("g", 1, "f", 3), Req("f", 2, "f", 4),
     Req("f", 7, "f", 5), Req("g", 8, "h", 6),
     Req("a", 9, "a", 8)}

NextEnPassant ==
    \/ TurnStart
    \/ \E r \in EnPassantRequests : CommandMove(r[1], r[2])

SpecEnPassant == Init /\ [][NextEnPassant]_vars

\* the first player empties e1, f1 and g1, moves the king to e1, and asks for
\* two-column king moves; the second player moves a knight out and back
CastlingRequests ==
    {Req("e", 2, "e", 3), Req("f", 1, "d", 3), Req("g", 1, "h", 3),
     Req("e", 1, "e", 2), Req("d", 1, "e", 1),
     Req("d", 1, "f", 1), Req("d", 1, "b", 1), Req("e", 1, "g", 1),
     Req("g", 8, "f", 6), Req("f", 6, "g", 8)}

NextCastling ==
    \/ TurnStart
    \/ \E r \in CastlingRequests : CommandMove(r[1], r[2]) /\ failed' <= MaxCastlingFailed

SpecCastling == Init /\ [][NextCastling]_vars

\* 1.Nf3 Nf6 2.Ng1 Ng8, twice
KnightShuffle ==
    <<Req("g", 1, "f", 3), Req("g", 8, "f", 6), Req("f", 3, "g", 1), Req("f", 6, "g", 8),
      Req("g", 1, "f", 3), Req("g", 8, "f", 6), Req("f", 3, "g", 1), Req("f", 6, "g", 8)>>

ShuffleRequests == {KnightShuffle[i] : i \in 1 .. 8}

NextShuffle ==
    \/ TurnStart
    \/ \E r \in ShuffleRequests : CommandMove(r[1], r[2])
    \/ CommandHelp

SpecShuffle == Init /\ [][NextShuffle]_vars

\* pawn moves, knight moves, and captures by a knight: 1.e4 Nf6 2.Nc3 Nxe4
\* 3.Nxe4 and what else these pieces can do, with help asked in between
ClockRequests ==
    {Req("e", 2, "e", 4), Req("g", 8, "f", 6), Req("b", 1, "c", 3),
     Req("f", 6, "e", 4), Req("c", 3, "e", 4), Req("g", 1, "f", 3),
     Req("d", 7, "d", 5), Req("e", 4, "d", 5)}

NextClock ==
    \/ TurnStart
    \/ \E r \in ClockRequests : CommandMove(r[1], r[2]) /\ failed' <= MaxClockFailed
    \/ CommandHelp /\ failed' <= MaxClockFailed

SpecClock == Init /\ [][NextClock]_vars

\* the first player's knight goes round b1 c3 b5 a3, the second player's round
\* a cycle of fourteen tiles from g8: the position returns every 56 halfmoves.
\* The first player may play b2-b3 instead, once.
FirstKnightCycle == <<<<"b", 1>>, <<"c", 3>>, <<"b", 5>>, <<"a", 3>>>>

SecondKnightCycle ==
    <<<<"g", 8>>, <<"h", 6>>, <<"f", 5>>, <<"h", 4>>, <<"g", 6>>, <<"e", 5>>, <<"f", 3>>,
      <<"g", 5>>, <<"h", 3>>, <<"f", 4>>, <<"h", 5>>, <<"g", 3>>, <<"e", 4>>, <<"f", 6>>>>

CycleRequests(cycle) ==
    {<<cycle[i], cycle[(i % Len(cycle)) + 1]>> : i \in 1 .. Len(cycle)}

FiftyRequests ==
    CycleRequests(FirstKnightCycle) \cup CycleRequests(SecondKnightCycle)
        \cup {Req("b", 2, "b", 3)}

\* the games in which every request is applied
NextFifty ==
    \/ TurnStart
    \/ \E r \in FiftyRequests : CommandMove(r[1], r[2]) /\ failed' = 0

SpecFifty == Init /\ [][NextFifty]_vars

\* 1.f3 e5 2.g4 and the requests for h4 from d8 and from e8, and the same
\* with the files mirrored: 1.c3 d5 2.b4 and e8-a4
MateRequests ==
    {Req("f", 2, "f", 3), Req("e", 7, "e", 5), Req("g", 2, "g", 4),
     Req("d", 8, "h", 4), Req("e", 8, "h", 4),
     Req("c", 2, "c", 3), Req("d", 7, "d", 5), Req("b", 2, "b", 4),
     Req("e", 8, "a", 4)}

NextMate ==
    \/ TurnStart
    \/ \E r \in MateRequests : CommandMove(r[1], r[2]) /\ failed' <= MaxMateFailed

SpecMate == Init /\ [][NextMate]_vars

\* a game of 25 halfmoves after which the second player, not in check, has
\* no move: 1.d4 h5 2.Qa5 Rh7 3.Qxh5 Rh6 4.a4 a5 5.Qxf7 Na6 6.d5 Nb8 7.b4 Ra6
\* 8.b5 c6 9.Qxe7+ Kc7 10.Qxg7 Qe3 11.Qxg8 Qa7 12.Qxf8 Kb6 13.Qd6
StalemateGame ==
    <<Req("d", 2, "d", 4), Req("h", 7, "h", 5), Req("e", 1, "a", 5), Req("h", 8, "h", 7),
      Req("a", 5, "h", 5), Req("h", 7, "h", 6), Req("a", 2, "a", 4), Req("a", 7, "a", 5),
      Req("h", 5, "f", 7), Req("b", 8, "a", 6), Req("d", 4, "d", 5), Req("a", 6, "b", 8),
      Req("b", 2, "b", 4), Req("h", 6, "a", 6), Req("b", 4, "b", 5), Req("c", 7, "c", 6),
      Req("f", 7, "e", 7), Req("d", 8, "c", 7), Req("e", 7, "g", 7), Req("e", 8, "e", 3),
      Req("g", 7, "g", 8), Req("e", 3, "a", 7), Req("g", 8, "f", 8), Req("c", 7, "b", 6),
      Req("f", 8, "d", 6)>>

\* 1.c3 d5 2.b4 Qa4, after which the first player is mated
MateGame ==
    <<Req("c", 2, "c", 3), Req("d", 7, "d", 5), Req("b", 2, "b", 4), Req("e", 8, "a", 4)>>

\* 1.f3 e5 2.g4, after which nobody is mated
OpenGame ==
    <<Req("f", 2, "f", 3), Req("e", 7, "e", 5), Req("g", 2, "g", 4)>>

\* the games in which the n-th applied move is the n-th move of one of the
\* three, with any request of the three made at the wrong time in between
ClassifyRequests ==
    {StalemateGame[i] : i \in 1 .. Len(StalemateGame)}
        \cup {MateGame[i] : i \in 1 .. Len(MateGame)}
        \cup {OpenGame[i] : i \in 1 .. Len(OpenGame)}

FollowsAGame(r) ==
    \/ applied < Len(StalemateGame) /\ r = StalemateGame[applied + 1]
    \/ applied < Len(MateGame) /\ r = MateGame[applied + 1]
    \/ applied < Len(OpenGame) /\ r = OpenGame[applied + 1]

NextClassify ==
    \/ TurnStart
    \/ \E r \in ClassifyRequests :
          /\ CommandMove(r[1], r[2])
          /\ applied' > applied => FollowsAGame(r)
          /\ failed' <= MaxClassifyFailed

SpecClassify == Init /\ [][NextClassify]_vars

\* Positions late in a game, as CommandLoad puts them on the board of a game
\* just started: the kings on d1 and d8, the first player to move, and up to
\* MaxExtra other pieces, the i-th on ExtraTiles[i], from where no piece
\* attacks a king.  The loop has counted the start position before the load.
ExtraTiles == <<<<3, 1>>, <<4, 5>>, <<4, 2>>, <<3, 5>>>>

ExtraPieces ==
    {[name |-> n, player |-> p, moved |-> TRUE] :
        n \in {"P", "N", "B", "R", "Q"}, p \in {0, 1}}

ExtraChoices == UNION {[1 .. n -> ExtraPieces] : n \in 0 .. MaxExtra}

MaterialBoard(extras) ==
    [t \in Tiles |->
        IF t = <<0, 3>> THEN King(0)
        ELSE IF t = <<7, 3>> THEN King(1)
        ELSE IF \E i \in 1 .. Len(extras) : ExtraTiles[i] = t
             THEN extras[CHOOSE i \in 1 .. Len(extras) : ExtraTiles[i] = t]
        ELSE None]

InitMaterial ==
    \E extras \in ExtraChoices : LoadedAtStart(MaterialBoard(extras))

\* the kings step aside, each once
MaterialRequests == {Req("d", 1, "c", 1), Req("d", 8, "c", 8)}

NextMaterial ==
    \/ TurnStart
    \/ \E r \in MaterialRequests : CommandMove(r[1], r[2]) /\ failed' = 0

SpecMaterial == InitMaterial /\ [][NextMaterial]_vars

\* a game in which both players promote a pawn: 1.h4 g5 2.hxg5 a5 3.b4 axb4
\* 4.g6 b3 5.gxh7 bxa2 6.hxg8 axb1
PromotionGame ==
    <<Req("h", 2, "h", 4), Req("g", 7, "g", 5), Req("h", 4, "g", 5), Req("a", 7, "a", 5),
      Req("b", 2, "b", 4), Req("a", 5, "b", 4), Req("g", 5, "g", 6), Req("b", 4, "b", 3),
      Req("g", 6, "h", 7), Req("b", 3, "a", 2), Req("h", 7, "g", 8), Req("a", 2, "b", 1)>>

PromotionRequests == {PromotionGame[i] : i \in 1 .. Len(PromotionGame)}

\* what is typed at the prompt of promote_pawn
PromoteAnswers == {"Q", "R", "B", "N", "q", "x"}

\* the games in which the n-th applied move is the n-th move of PromotionGame,
\* with any of its requests made at the wrong time in between
NextPromotion ==
    \/ TurnStart
    \/ \E r \in PromotionRequests :
          /\ CommandMove(r[1], r[2])
          /\ applied' > applied => r = PromotionGame[applied + 1]
          /\ failed' <= MaxPromotionFailed
    \/ \E choice \in PromoteAnswers : PromoteChoice(choice)

SpecPromotion == Init /\ [][NextPromotion]_vars

\* requests with a rank or file off the board among ordinary ones: rank 0,
\* the file two before "a", rank 9 and the file after "h"
CoordinateRequests ==
    {Req("e", 2, "e", 4), Req("g", 8, "f", 6), Req("g", 0, "f", 6),
     Req("_", 2, "_", 4), Req("a", 9, "a", 8), Req("i", 2, "i", 4)}

NextCoordinates ==
    \/ TurnStart
    \/ \E r \in CoordinateRequests : CommandMove(r[1], r[2])

SpecCoordinates == Init /\ [][NextCoordinates]_vars

\* the kings walk up to each other: 1.d3 e5 2.Kd2 Ke7 3.Kc3 Kd6 4.a3 Kc5
\* 5.Kc4 Kb6
AdjacentGame ==
    <<Req("d", 2, "d", 3), Req("e", 7, "e", 5), Req("d", 1, "d", 2), Req("d", 8, "e", 7),
      Req("d", 2, "c", 3), Req("e", 7, "d", 6), Req("a", 2, "a", 3), Req("d", 6, "c", 5),
      Req("c", 3, "c", 4), Req("c", 5, "b", 6)>>

\* the kings two files apart: 1.e3 c6 2.Ke2 Kc7 3.Kd3 Kb6 4.a3 Kb5
DistantGame ==
    <<Req("e", 2, "e", 3), Req("c", 7, "c", 6), Req("d", 1, "e", 2), Req("d", 8, "c", 7),
      Req("e", 2, "d", 3), Req("c", 7, "b", 6), Req("a", 2, "a", 3), Req("b", 6, "b", 5)>>

\* AdjacentGame up to 5.Kc4, then a pawn move that leaves the king where it
\* is and the king's step onto the other king
HuntGame ==
    SubSeq(AdjacentGame, 1, 9) \o <<Req("h", 7, "h", 6), Req("c", 4, "c", 5)>>

\* the requests made at any time: the end of HuntGame and the king's steps
\* c3-d4, d3-d4 and c5-c4
KingsProbes ==
    {Req("h", 7, "h", 6), Req("c", 4, "c", 5),
     Req("c", 3, "d", 4), Req("d", 3, "d", 4), Req("c", 5, "c", 4)}

\* the moves of the three games, each at its place in its game, and the probes
KingsRequests ==
    {AdjacentGame[i] : i \in 1 .. Len(AdjacentGame)}
        \cup {DistantGame[i] : i \in 1 .. Len(DistantGame)}
        \cup KingsProbes

FollowsAKingsGame(r) ==
    \/ applied < Len(AdjacentGame) /\ r = AdjacentGame[applied + 1]
    \/ applied < Len(DistantGame) /\ r = DistantGame[applied + 1]
    \/ applied < Len(HuntGame) /\ r = HuntGame[applied + 1]

NextKings ==
    \/ TurnStart
    \/ \E r \in KingsRequests :
          /\ CommandMove(r[1], r[2])
          /\ applied' > applied => FollowsAKingsGame(r)
          /\ applied' = applied => r \in KingsProbes
          /\ failed' <= MaxKingsFailed

SpecKings == Init /\ [][NextKings]_vars

\* 1.e4 d5 2.Nf3 d4 3.a3 and the capture d4xe3 of the pawn that stepped to
\* e4 three moves before
SaveLoadRequests ==
    {Req("e", 2, "e", 4), Req("d", 7, "d", 5), Req("g", 1, "f", 3),
     Req("d", 5, "d", 4), Req("a", 2, "a", 3), Req("d", 4, "e", 3)}

NextSaveLoad ==
    \/ TurnStart
    \/ \E r \in SaveLoadRequests :
          CommandMove(r[1], r[2]) /\ applied' > applied
    \/ CommandSave /\ failed' <= MaxSaveLoadFailed
    \/ CommandLoad /\ failed' <= MaxSaveLoadFailed

SpecSaveLoad == Init /\ [][NextSaveLoad]_vars

\* pawn moves: a double step over the knight on f3, a capture, single steps
\* and the double step f4-f6 of a pawn that has moved
PawnsRequests ==
    {Req("g", 1, "f", 3), Req("f", 2, "f", 4), Req("f", 4, "f", 6),
     Req("e", 7, "e", 5), Req("f", 4, "e", 5), Req("f", 4, "f", 5),
     Req("e", 5, "e", 4)}

NextPawns ==
    \/ TurnStart
    \/ \E r \in PawnsRequests : CommandMove(r[1], r[2]) /\ failed' <= MaxPawnsFailed

SpecPawns == Init /\ [][NextPawns]_vars

\* a game that leaves black with one move, an en-passant capture: 1.d4 h5
\* 2.Qa5 h4 3.Qh5 Rh7 4.Qxf7 Rh6 5.d5 a5 6.a4 Rg6 7.b4 Ra6 8.b5 c6 9.Qxe7+ Kc7
\* 10.Qxg7 Qe5 11.Qxg8 Qe3 12.Qxf8 Qc5 13.h3 Qa7 14.Qd6+ Kb6 15.g4
StuckGame ==
    <<Req("d", 2, "d", 4), Req("h", 7, "h", 5), Req("e", 1, "a", 5), Req("h", 5, "h", 4),
      Req("a", 5, "h", 5), Req("h", 8, "h", 7), Req("h", 5, "f", 7), Req("h", 7, "h", 6),
      Req("d", 4, "d", 5), Req("a", 7, "a", 5), Req("a", 2, "a", 4), Req("h", 6, "g", 6),
      Req("b", 2, "b", 4), Req("g", 6, "a", 6), Req("b", 4, "b", 5), Req("c", 7, "c", 6),
      Req("f", 7, "e", 7), Req("d", 8, "c", 7), Req("e", 7, "g", 7), Req("e", 8, "e", 5),
      Req("g", 7, "g", 8), Req("e", 5, "e", 3), Req("g", 8, "f", 8), Req("e", 3, "c", 5),
      Req("h", 2, "h", 3), Req("c", 5, "a", 7), Req("f", 8, "d", 6), Req("c", 7, "b", 6),
      Req("g", 2, "g", 4)>>

\* the capture h4xg3 and a step of the pinned pawn, asked at any time
StuckProbes == {Req("h", 4, "g", 3), Req("c", 6, "c", 5)}

StuckRequests == {StuckGame[i] : i \in 1 .. Len(StuckGame)} \cup StuckProbes

NextStuck ==
    \/ TurnStart
    \/ \E r \in StuckRequests :
          /\ CommandMove(r[1], r[2])
          /\ applied' > applied => (applied < Len(StuckGame) /\ r = StuckGame[applied + 1])
          /\ applied' = applied => r \in StuckProbes
          /\ failed' <= MaxStuckFailed

SpecStuck == Init /\ [][NextStuck]_vars

\* positions with a rook, a bishop or a queen of player 0 on c3, the kings on
\* d1 and d8, and on each of c4, c5, d4 and e5 nothing or a knight of either
\* player: c4 lies between c3 and c5, d4 between c3 and e5
SliderTile == <<2, 2>>
RayTiles == {<<3, 2>>, <<4, 2>>, <<3, 3>>, <<4, 4>>}
RayFillings == [RayTiles -> {None, Knight(0), Knight(1)}]
SliderNames == {"R", "B", "Q"}

RaysBoard(name, filling) ==
    [t \in Tiles |->
        IF t = <<0, 3>> THEN King(0)
        ELSE IF t = <<7, 3>> THEN King(1)
        ELSE IF t = SliderTile THEN [name |-> name, player |-> 0, moved |-> TRUE]
        ELSE IF t \in RayTiles THEN filling[t]
        ELSE None]

InitRays ==
    \E name \in SliderNames, filling \in RayFillings :
        LoadedAtStart(RaysBoard(name, filling))

\* the piece is asked to go two squares up its file and two up its diagonal
RaysRequests == {Req("c", 3, "c", 5), Req("c", 3, "e", 5)}

NextRays ==
    \/ TurnStart
    \/ \E r \in RaysRequests : CommandMove(r[1], r[2]) /\ failed' <= MaxRaysFailed

SpecRays == InitRays /\ [][NextRays]_vars

----------------------------------------------------------------------------
(* Claims *)

Rejections == {"noPiece", "notOwn", "illegal", "selfCheck"}

LastFrom == ParseTile(last.from)
LastTo == ParseTile(last.to)

\* the last command was a move request that was applied (a promoting move
\* counts from the moment it is on the board)
MoveApplied == last.cmd = "move" /\ last.outcome \in {"applied", "promote"}

MoveRejected == last.cmd = "move" /\ last.outcome \in Rejections

C2_RejectedLeavesPosition ==
    MoveRejected =>
        /\ board = pre.board
        /\ currentPlayer = pre.cur
        /\ halfmoveClock = pre.clock

\* C2 witness: a request was rejected for self-check, the case in which the
\* pieces were moved and put back, after applied moves changed board and clock
C2_Witness ==
    /\ last.cmd = "move"
    /\ last.outcome = "selfCheck"
    /\ board # StartBoard

\* C3: a rejected move request leaves the en-passant target as it was.
C3_RejectedKeepsTarget ==
    MoveRejected => enPassant = pre.ep

\* the request (fromTile, toTile) made in position st is an en-passant capture
\* as C4 describes it: a target is recorded, the side to move has a pawn on
\* fromTile beside an enemy pawn, and toTile is the empty target, diagonally
\* forward of fromTile and straight behind that enemy pawn
IsEnPassantCapture(st, fromTile, toTile) ==
    LET d == direction(st.cur)
        beside == <<fromTile[1], toTile[2]>>
    IN  /\ fromTile # NoTile /\ toTile # NoTile
        /\ st.ep # NoTile
        /\ toTile = st.ep
        /\ st.board[toTile] = None
        /\ st.board[fromTile].name = "P"
        /\ st.board[fromTile].player = st.cur
        /\ toTile \in {get_tile(fromTile, -1, d), get_tile(fromTile, 1, d)}
        /\ st.board[beside].name = "P"
        /\ st.board[beside].player = get_opponent(st.cur)

\* the board an en-passant capture is to leave
AfterEnPassant(b, fromTile, toTile) ==
    [b EXCEPT ![toTile] = [b[fromTile] EXCEPT !.moved = TRUE],
              ![fromTile] = None,
              ![<<fromTile[1], toTile[2]>>] = None]

\* C4: an en-passant capture that does not expose the mover's king is applied:
\* the target tile then holds the capturing pawn and the pawn that
\* double-stepped, beside the origin, is gone.
C4_EnPassantApplied ==
    ( /\ last.cmd = "move"
      /\ IsEnPassantCapture(pre, LastFrom, LastTo)
      /\ ~is_king_in_check(Game(AfterEnPassant(pre.board, LastFrom, LastTo), NoTile),
                           pre.cur) )
    => /\ last.outcome = "applied"
       /\ board = AfterEnPassant(pre.board, LastFrom, LastTo)

\* the last move request moved a pawn two rows
LastIsDoubleStep ==
    /\ LastFrom # NoTile /\ LastTo # NoTile
    /\ pre.board[LastFrom].name = "P"
    /\ Abs(LastFrom[1] - LastTo[1]) = 2

\* the tile between the two tiles of a double step
PassedOver == <<(LastFrom[1] + LastTo[1]) \div 2, LastFrom[2]>>

C6_TargetEmptyBehindPawn ==
    enPassant # NoTile =>
        /\ board[enPassant] = None
        /\ \E p \in {0, 1} :
              LET t == get_tile(enPassant, 0, direction(p))
              IN  t # NoTile /\ board[t].name = "P" /\ board[t].player = p

\* the request (fromTile, toTile) made in position st moves the king of the
\* side to move two columns along its row
IsCastlingRequest(st, fromTile, toTile) ==
    /\ fromTile # NoTile /\ toTile # NoTile
    /\ st.board[fromTile].name = "K"
    /\ st.board[fromTile].player = st.cur
    /\ fromTile[1] = toTile[1]
    /\ Abs(fromTile[2] - toTile[2]) = 2

\* the corner the king moves toward, the tiles strictly between king and
\* corner, and the tile the king passes through
Corner(fromTile, toTile) == <<fromTile[1], IF toTile[2] > fromTile[2] THEN 7 ELSE 0>>

Between(fromTile, toTile) ==
    {t \in Tiles : /\ t[1] = fromTile[1]
                   /\ \/ fromTile[2] < t[2] /\ t[2] < Corner(fromTile, toTile)[2]
                      \/ Corner(fromTile, toTile)[2] < t[2] /\ t[2] < fromTile[2]}

PassedThrough(fromTile, toTile) == <<fromTile[1], (fromTile[2] + toTile[2]) \div 2>>

\* the five reasons for which a castling is to be refused
KingHasMoved(st, fromTile) == st.board[fromTile].moved

RookHasMoved(st, fromTile, toTile) ==
    LET rook == st.board[Corner(fromTile, toTile)]
    IN  ~(rook.name = "R" /\ rook.player = st.cur /\ ~rook.moved)

PathOccupied(st, fromTile, toTile) ==
    \E t \in Between(fromTile, toTile) : st.board[t] # None

KingInCheck(st) == is_king_in_check(Game(st.board, st.ep), st.cur)

PathAttacked(st, fromTile, toTile) ==
    \/ is_square_attacked(Game(st.board, st.ep), PassedThrough(fromTile, toTile),
                          get_opponent(st.cur))
    \/ is_square_attacked(Game(st.board, st.ep), toTile, get_opponent(st.cur))

CastlingRefusable(st, fromTile, toTile) ==
    \/ KingHasMoved(st, fromTile)
    \/ RookHasMoved(st, fromTile, toTile)
    \/ PathOccupied(st, fromTile, toTile)
    \/ KingInCheck(st)
    \/ PathAttacked(st, fromTile, toTile)

\* the board a castling is to leave: the king on toTile, the corner rook on
\* the tile the king passed through, both marked moved
AfterCastling(b, fromTile, toTile) ==
    [b EXCEPT ![toTile] = [b[fromTile] EXCEPT !.moved = TRUE],
              ![PassedThrough(fromTile, toTile)] =
                  [b[Corner(fromTile, toTile)] EXCEPT !.moved = TRUE],
              ![fromTile] = None,
              ![Corner(fromTile, toTile)] = None]

\* C7: a two-column king move toward the own corner rook is applied when
\* neither has moved, the tiles between them are empty, the king is not in
\* check and the tile it passes through and its destination are not attacked;
\* it leaves the rook beside the king and both marked moved.
C7_CastlingApplied ==
    ( /\ last.cmd = "move"
      /\ IsCastlingRequest(pre, LastFrom, LastTo)
      /\ ~CastlingRefusable(pre, LastFrom, LastTo) )
    => /\ last.outcome = "applied"
       /\ board = AfterCastling(pre.board, LastFrom, LastTo)

RECURSIVE SumOver(_, _)
SumOver(f, S) ==
    IF S = {} THEN 0
    ELSE LET x == CHOOSE y \in S : TRUE
         IN  f[x] + SumOver(f, S \ {x})

\* the number of times a position was counted so far
TotalCount == SumOver(history, DOMAIN history)

\* C9: a position is counted once per turn, for the initial position and after
\* each applied move, and not after a rejected request or a help command: once
\* the position of a turn is counted, the counts add up to the applied moves
\* plus one.
C9_CountedOncePerTurn ==
    pc \in {"input", "stopped"} => TotalCount = applied + 1

\* C10: as long as every command was an applied move, the applied moves are
\* 1.Nf3 Nf6 2.Ng1 Ng8 twice, none of these requests is rejected in its turn,
\* and the game stops, as a draw by repetition, exactly at the start of the
\* turn after the eighth.
C10_ShuffleDraw ==
    /\ failed = 0 =>
          /\ applied <= 8
          /\ applied > 0 => <<last.from, last.to>> = KnightShuffle[applied]
          /\ result = "DrawByRepetition" <=> (applied = 8 /\ pc = "stopped")
          /\ pc = "stopped" => result = "DrawByRepetition"
    /\ (failed = 1 /\ last.cmd = "move" /\ ~MoveApplied /\ applied < 8) =>
          <<last.from, last.to>> # KnightShuffle[applied + 1]

\* C10 witness: the eight moves were applied one after the other and the game
\* is drawn
C10_Witness ==
    /\ failed = 0
    /\ applied = 8
    /\ result = "DrawByRepetition"

\* what the last move request moved, and whether its destination was occupied
LastMovedPawn == pre.board[LastFrom].name = "P"
LastCaptured == pre.board[LastTo] # None

\* C11: after an applied move the halfmove clock is 0 if the moved piece was a
\* pawn or the destination held a piece before the move, and one more than
\* before otherwise; a rejected request, a help command, the start of a turn
\* and the start of the game leave it as it was.
C11_ClockAfterCommand ==
    /\ last.cmd = "none" => halfmoveClock = 0
    /\ MoveApplied =>
          halfmoveClock = IF LastMovedPawn \/ LastCaptured THEN 0 ELSE pre.clock + 1
    /\ (last.cmd # "none" /\ ~MoveApplied) => halfmoveClock = pre.clock

\* C11 witness: a piece other than a pawn captured while the clock was running
C11_Witness ==
    /\ MoveApplied
    /\ ~LastMovedPawn
    /\ LastCaptured
    /\ pre.clock > 0
    /\ halfmoveClock = 0

\* how often the position on the board was counted so far
CountHere ==
    LET h == get_position_hash(board, currentPlayer, enPassant)
    IN  IF h \in DOMAIN history THEN history[h] ELSE 0

\* C12: the halfmove clock never exceeds 100 and no request is asked for while
\* it is 100: the turn that starts with the clock at 100, after 100 applied
\* halfmoves without capture or pawn move, ends the game, as DrawByFiftyMove
\* unless the repetition rule, which is looked at first, has ended it.
C12_FiftyMoveDraw ==
    /\ halfmoveClock <= 100
    /\ pc = "input" => halfmoveClock < 100
    /\ (pc = "stopped" /\ halfmoveClock = 100 /\ CountHere < 3) =>
          result = "DrawByFiftyMove"
    /\ result = "DrawByFiftyMove" => (pc = "stopped" /\ halfmoveClock = 100)

\* C12 witness: the game was drawn by the fifty-move rule after a pawn move
\* and 100 more halfmoves
C12_Witness ==
    /\ result = "DrawByFiftyMove"
    /\ applied > 100
    /\ halfmoveClock = 100

\* the board after f2-f3, e7-e5, g2-g4 from the start
FoolsBoard ==
    [StartBoard EXCEPT ![<<1, 5>>] = None, ![<<2, 5>>] = [Pawn(0) EXCEPT !.moved = TRUE],
                       ![<<1, 6>>] = None, ![<<3, 6>>] = [Pawn(0) EXCEPT !.moved = TRUE],
                       ![<<6, 4>>] = None, ![<<4, 4>>] = [Pawn(1) EXCEPT !.moved = TRUE]]

\* the last request asked, after these three moves, for the second player's
\* queen or for the piece on d8 to go to h4
FoolsMateRequested ==
    /\ last.cmd = "move"
    /\ pre.board = FoolsBoard
    /\ pre.cur = 1
    /\ LastTo = <<3, 7>>
    /\ pre.board[LastFrom].name = "Q" \/ LastFrom = <<7, 3>>

\* C13: after f2-f3, e7-e5, g2-g4 the second player's queen move to h4 is
\* applied, and the turn that follows finds the first player in check without
\* a legal move: CheckmateWin for the second player.
C13_FoolsMate ==
    FoolsMateRequested =>
        /\ MoveApplied
        /\ pc \in {"input", "stopped"} =>
              /\ result = "CheckmateWin"
              /\ currentPlayer = 0
              /\ is_king_in_check(Game(board, enPassant), 0)
              /\ ~has_legal_moves(Game(board, enPassant), 0)

\* none of the three draw conditions holds for the position on the board
NoDrawHere ==
    /\ CountHere < 3
    /\ halfmoveClock < 100
    /\ \/ \E t \in Tiles : board[t].name \in {"P", "R", "Q"}
       \/ Cardinality({t \in Tiles : board[t].name \in {"B", "N"}}) >= 2

\* a move C14 counts as legal for the side to move: allowed by the piece's
\* rule in simulate mode, and the king not attacked once the piece stands on
\* the destination
LegalHere(fromTile, toTile) ==
    /\ board[fromTile].player = currentPlayer
    /\ is_move_allowed(Game(board, enPassant), fromTile, toTile, TRUE)
    /\ ~is_king_in_check(Game(Relocate(board, fromTile, toTile), enPassant),
                         currentPlayer)

LegalMoveHere ==
    \E fromTile \in Tiles :
        /\ board[fromTile].player = currentPlayer
        /\ \E toTile \in Tiles : LegalHere(fromTile, toTile)

\* C14: once a turn has started on a position for which no draw condition
\* holds, the game is CheckmateWin if the side to move has no legal move and
\* is in check, Stalemate if it has none and is not in check, and InProgress
\* if it has one.
C14_Classification ==
    (pc \in {"input", "stopped"} /\ NoDrawHere) =>
        result = IF LegalMoveHere THEN "InProgress"
                 ELSE IF is_king_in_check(Game(board, enPassant), currentPlayer)
                      THEN "CheckmateWin"
                      ELSE "Stalemate"

\* C14 witness: a turn started on a position in which the side to move is not
\* in check and has no legal move, and the game stopped as a stalemate
C14_Witness ==
    /\ pc = "stopped"
    /\ NoDrawHere
    /\ ~LegalMoveHere
    /\ ~is_king_in_check(Game(board, enPassant), currentPlayer)
    /\ result = "Stalemate"

\* the pieces of the given kinds on the board, of both players
CountOf(names) == Cardinality({t \in Tiles : board[t].name \in names})

\* the pieces of one kind and one player
CountFor(name, p) ==
    Cardinality({t \in Tiles : board[t].name = name /\ board[t].player = p})

\* C15: a turn that starts without repetition and with the clock below 100
\* ends the game as DrawByInsufficientMaterial exactly when the board holds no
\* pawn, rook or queen and fewer than two bishops and knights in total.
C15_InsufficientMaterial ==
    (pc \in {"input", "stopped"} /\ CountHere < 3 /\ halfmoveClock < 100) =>
        ( result = "DrawByInsufficientMaterial"
          <=> (CountOf({"P", "R", "Q"}) = 0 /\ CountOf({"B", "N"}) < 2) )

\* C15 witness: king and bishop against king, drawn
C15_Witness ==
    /\ result = "DrawByInsufficientMaterial"
    /\ CountOf({"P", "R", "Q", "N"}) = 0
    /\ CountFor("B", 0) = 1
    /\ CountFor("B", 1) = 0

\* C16: once the game is classified as checkmate, stalemate or one of the
\* three draws, the loop has stopped, no request is asked for, and board, side
\* to move, halfmove clock and en-passant target never change again.
C16_TerminalAbsorbing ==
    /\ [](result # "InProgress" => (pc = "stopped" /\ ~run))
    /\ [][result # "InProgress" =>
             UNCHANGED <<board, currentPlayer, halfmoveClock, enPassant, result,
                         last, applied, failed>>]_vars

\* C16 witness: the game was drawn by repetition and has stopped, after moves
\* were applied
C16_Witness ==
    /\ result = "DrawByRepetition"
    /\ pc = "stopped"
    /\ applied > 0

\* the origin of the last move request was empty or held a piece of the side
\* not to move
WrongOrigin ==
    /\ last.cmd = "move"
    /\ LastFrom # NoTile /\ LastTo # NoTile
    /\ pre.board[LastFrom] = None \/ pre.board[LastFrom].player # pre.cur

\* C17: a move request whose origin is empty or holds a piece of the side not
\* to move is rejected; the side to move switches with every applied move and
\* with nothing else, so the n-th applied move is made by the first player
\* when n is odd and by the second when n is even, with a piece of their own.
C17_TurnsAlternate ==
    /\ WrongOrigin => (last.outcome \in {"noPiece", "notOwn"} /\ board = pre.board)
    /\ pc # "promote" => currentPlayer = applied % 2
    /\ MoveApplied =>
          /\ pre.cur = (applied - 1) % 2
          /\ pre.board[LastFrom].player = pre.cur
    /\ (last.cmd # "none" /\ ~MoveApplied) => currentPlayer = pre.cur

\* C17 witness: after applied moves of both players, a request for a piece of
\* the side not to move was rejected and the side to move is the same
C17_Witness ==
    /\ last.cmd = "move"
    /\ last.outcome = "notOwn"
    /\ applied >= 2
    /\ currentPlayer = pre.cur

ValidChoices == {"Q", "R", "B", "N"}

\* the last move request moved a pawn onto the rank farthest from its owner
LastIsPromoting ==
    /\ MoveApplied
    /\ LastMovedPawn
    /\ IsPromotionRow(pre.board[LastFrom], LastTo)

\* the board a promoting move leaves before the choice
BeforeChoice ==
    [pre.board EXCEPT ![LastTo] = [pre.board[LastFrom] EXCEPT !.moved = TRUE],
                      ![LastFrom] = None]

\* C18: an applied pawn move onto the rank farthest from the pawn's owner
\* leaves on that tile, once the choice is made, a piece of the chosen kind
\* among Queen, Rook, Bishop and Knight owned by the same player, and every
\* other tile as the move left it; so no turn starts with a pawn on row 7 for
\* the player of direction +1 or on row 0 for the player of direction -1.
C18_PawnReplaced ==
    /\ (LastIsPromoting /\ pc # "promote") =>
          /\ Upper(last.choice) \in ValidChoices
          /\ board = [BeforeChoice EXCEPT ![LastTo] =
                         [name |-> Upper(last.choice), player |-> pre.cur,
                          moved |-> FALSE]]
    /\ pc # "promote" =>
          \A t \in Tiles : board[t].name = "P" => ~IsPromotionRow(board[t], t)

\* C18 witness: the second player's pawn reached row 0 and a knight of the
\* second player stands there
C18_Witness ==
    /\ LastIsPromoting
    /\ pc # "promote"
    /\ pre.cur = 1
    /\ LastTo[1] = 0
    /\ board[LastTo] = Knight(1)

\* C19: from a promoting pawn move until an answer among Queen, Rook, Bishop
\* and Knight is given, the program waits in promote_pawn: the side to move
\* has not switched, no other request was taken, and the board is as the move
\* left it, whatever other answers were given; the first such answer ends
\* the wait with the promotion made and the turn passed to the opponent.
C19_ChoiceBlocks ==
    /\ pc = "promote" =>
          /\ LastIsPromoting
          /\ last.outcome = "promote"
          /\ Upper(last.choice) \notin ValidChoices
          /\ promoTile = LastTo
          /\ board = BeforeChoice
          /\ currentPlayer = pre.cur
          /\ enPassant = NoTile
          /\ halfmoveClock = 0
    /\ LastIsPromoting =>
          (pc = "promote" <=> Upper(last.choice) \notin ValidChoices)
    /\ (LastIsPromoting /\ pc # "promote") =>
          /\ last.outcome = "applied"
          /\ board[LastTo].name = Upper(last.choice)
          /\ currentPlayer = get_opponent(pre.cur)

\* C19 witness: an answer that is no choice was given and the program still
\* waits, the pawn on the last rank and its owner to move
C19_Witness ==
    /\ pc = "promote"
    /\ last.choice = "x"
    /\ board[promoTile].name = "P"
    /\ currentPlayer = board[promoTile].player

\* a position whose rank is not 1..8 or whose file is not a..h
OffBoard(pos) ==
    \/ pos[2] \notin 1 .. 8
    \/ pos[1] \notin {"a", "b", "c", "d", "e", "f", "g", "h",
                      "A", "B", "C", "D", "E", "F", "G", "H"}

\* C20: a move request whose origin or destination has a rank or file off
\* the board is not applied and leaves board, side to move, en-passant target
\* and halfmove clock as they were.
C20_OffBoardRejected ==
    (last.cmd = "move" /\ (OffBoard(last.from) \/ OffBoard(last.to))) =>
        /\ ~MoveApplied
        /\ board = pre.board
        /\ currentPlayer = pre.cur
        /\ enPassant = pre.ep
        /\ halfmoveClock = pre.clock

\* the tiles on which a king of player p stands
KingTiles(p) == {t \in Tiles : board[t].name = "K" /\ board[t].player = p}

\* C21: in every state of a game played from the start position each player
\* has exactly one king on the board, and no applied move lands on a tile
\* that held a king.
C21_OneKingEach ==
    /\ \A p \in {0, 1} : Cardinality(KingTiles(p)) = 1
    /\ MoveApplied => pre.board[LastTo].name # "K"

\* C21 witness: the side to move asked to move its king onto the tile of the
\* other king, standing next to it, and the request was rejected
C21_Witness ==
    /\ MoveRejected
    /\ pre.board[LastFrom].name = "K"
    /\ pre.board[LastFrom].player = pre.cur
    /\ pre.board[LastTo].name = "K"
    /\ pre.board[LastTo].player = get_opponent(pre.cur)
    /\ board = pre.board

\* the last command was a load that read a saved game
Loaded == last.cmd = "load" /\ last.outcome = "loaded"

\* C22: after a load of a saved game, board, side to move, en-passant target
\* and halfmove clock are the values the game had when it was saved.
C22_RoundTrip ==
    Loaded =>
        /\ board = saved[1].board
        /\ currentPlayer = saved[1].cur
        /\ enPassant = saved[1].ep
        /\ halfmoveClock = saved[1].clock

Sign(x) == IF x > 0 THEN 1 ELSE IF x < 0 THEN -1 ELSE 0

\* toTile is another square of the row or the column of fromTile
OnOrthogonal(fromTile, toTile) ==
    fromTile # toTile /\ (fromTile[1] = toTile[1] \/ fromTile[2] = toTile[2])

\* toTile is another square of a diagonal of fromTile
OnDiagonal(fromTile, toTile) ==
    fromTile # toTile /\ Abs(fromTile[1] - toTile[1]) = Abs(fromTile[2] - toTile[2])

\* the squares strictly between two squares of one row, column or diagonal
StrictlyBetween(fromTile, toTile) ==
    LET dr == Sign(toTile[1] - fromTile[1])
        dc == Sign(toTile[2] - fromTile[2])
        n == IF Abs(toTile[1] - fromTile[1]) > Abs(toTile[2] - fromTile[2])
             THEN Abs(toTile[1] - fromTile[1]) ELSE Abs(toTile[2] - fromTile[2])
    IN  {<<fromTile[1] + k * dr, fromTile[2] + k * dc>> : k \in 1 .. n - 1}

\* the rays of a piece by its name
OnRayOf(name, fromTile, toTile) ==
    \/ name \in {"R", "Q"} /\ OnOrthogonal(fromTile, toTile)
    \/ name \in {"B", "Q"} /\ OnDiagonal(fromTile, toTile)

\* C23: on every board and for every pair of squares, a rook, bishop or
\* queen on the first may move to the second by its rule iff the second lies
\* on one of its rays, every square strictly between the two is empty, and
\* the second is empty or holds a piece of the other player.
C23_SliderRays ==
    \A fromTile \in Tiles :
        board[fromTile].name \in SliderNames =>
            \A toTile \in Tiles :
                is_move_allowed(Game(board, enPassant), fromTile, toTile, TRUE)
                    <=> /\ OnRayOf(board[fromTile].name, fromTile, toTile)
                        /\ \A t \in StrictlyBetween(fromTile, toTile) : board[t] = None
                        /\ board[toTile].player # board[fromTile].player

\* C23 witness: the piece was asked to take an enemy piece two squares away
\* on one of its rays with the square between occupied, and was refused
C23_Witness ==
    /\ last.cmd = "move"
    /\ last.outcome = "illegal"
    /\ pre.board[LastFrom].name \in SliderNames
    /\ OnRayOf(pre.board[LastFrom].name, LastFrom, LastTo)
    /\ pre.board[LastTo].player = get_opponent(pre.board[LastFrom].player)
    /\ \E t \in StrictlyBetween(LastFrom, LastTo) : pre.board[t] # None
    /\ board = pre.board

\* toTile is one of the eight squares around fromTile
Adjacent(fromTile, toTile) ==
    /\ fromTile # toTile
    /\ Abs(fromTile[1] - toTile[1]) <= 1
    /\ Abs(fromTile[2] - toTile[2]) <= 1

\* C24: on every board and for every pair of squares, a king on the first
\* may make the non-castling move to the second by its rule iff the second is
\* one of the eight squares around the first and is empty or holds a piece of
\* the other player, wherever the other pieces stand.
C24_KingSteps ==
    \A fromTile \in Tiles :
        board[fromTile].name = "K" =>
            \A toTile \in Tiles :
                King_is_move_allowed(Game(board, enPassant), fromTile, toTile, TRUE)
                    <=> /\ Adjacent(fromTile, toTile)
                        /\ board[toTile].player # board[fromTile].player

\* C27: in every state of a game played from the start position the two
\* kings do not stand on adjacent squares.
C27_KingsApart ==
    \A t0 \in KingTiles(0), t1 \in KingTiles(1) : ~Adjacent(t0, t1)

\* the row on which the pawns of player p start
PawnStartRow(p) == IF p = 0 THEN 1 ELSE 6

\* the three pawn moves of the statement, for the pawn on fromTile
PawnStep(fromTile, toTile) ==
    LET pawn == board[fromTile]
        d == direction(pawn.player)
    IN  \/ /\ toTile = <<fromTile[1] + d, fromTile[2]>>
           /\ board[toTile] = None
        \/ /\ ~pawn.moved
           /\ toTile = <<fromTile[1] + 2 * d, fromTile[2]>>
           /\ board[toTile] = None
        \/ /\ toTile[1] = fromTile[1] + d
           /\ Abs(toTile[2] - fromTile[2]) = 1
           /\ board[toTile].player = get_opponent(pawn.player)

\* C25: with no en-passant target set a pawn may move by its rule iff it
\* goes one step forward to an empty square, or two steps forward to an empty
\* square when it has never moved, whatever stands on the square between, or
\* one step diagonally forward onto a piece of the other player; a pawn that
\* has made an applied move has moved for good and is allowed no double step.
C25_PawnRule ==
    /\ \A fromTile \in Tiles :
          board[fromTile].name = "P" =>
              /\ \A toTile \in Tiles :
                    Pawn_is_move_allowed(Game(board, NoTile), fromTile, toTile, TRUE)
                        <=> PawnStep(fromTile, toTile)
              /\ fromTile[1] # PawnStartRow(board[fromTile].player) =>
                    /\ board[fromTile].moved
                    /\ ~Pawn_is_move_allowed(Game(board, NoTile), fromTile,
                                             <<(fromTile[1]
                                                  + 2 * direction(board[fromTile].player)) % 8,
                                               fromTile[2]>>, TRUE)
    /\ (MoveApplied /\ board[LastTo].name = "P") => board[LastTo].moved

\* C25 witness: a pawn made its double step over an occupied square, and is
\* now a pawn that has moved
C25_Witness ==
    /\ MoveApplied
    /\ pre.board[LastFrom].name = "P"
    /\ ~pre.board[LastFrom].moved
    /\ Abs(LastTo[1] - LastFrom[1]) = 2
    /\ pre.board[<<(LastFrom[1] + LastTo[1]) \div 2, LastFrom[2]>>] # None
    /\ board[LastTo].name = "P"
    /\ board[LastTo].moved

\* the first pair of tiles that the search for a legal move of the side to
\* move simulates on the board as it is: <<origin, destination>> as indices
FirstSimulated ==
    LET ep == SeenTarget(enPassant, tileGame)
        S == {k \in 0 .. 63 :
                /\ board[TileAt(k)].player = currentPlayer
                /\ NextAllowed(board, ep, TileAt(k), 0) < 64}
        k == CHOOSE k \in S : \A m \in S : k <= m
    IN  IF S = {} THEN <<64, 64>> ELSE <<k, NextAllowed(board, ep, TileAt(k), 0)>>

\* C26: the search for a legal move at the top of a turn, whatever it finds,
\* and a move request rejected because it leaves the mover's king in check
\* leave every square's occupant as it was.
C26_SimulationReverted ==
    [][/\ pc = "loop" => board' = board
       /\ (pc = "input" /\ last'.cmd = "move" /\ last'.outcome = "selfCheck")
              => board' = board]_vars

\* C26 witness: the search has run on this board and the first move it
\* simulated took a piece, which stands where it stood
C26_Witness ==
    /\ pc = "input"
    /\ result = "InProgress"
    /\ FirstSimulated[2] < 64
    /\ board[TileAt(FirstSimulated[2])] # None
    /\ board[TileAt(FirstSimulated[2])].player = get_opponent(currentPlayer)

\* some request of the side to move would be applied by CommandMove.execute
SomeRequestApplies ==
    \E fromTile \in Tiles :
        /\ board[fromTile].player = currentPlayer
        /\ \E toTile \in Tiles :
              ExecuteOnTiles(Here, fromTile, toTile).outcome \in {"applied", "promote"}

\* C28: at the start of a turn has_legal_moves of the side to move is true
\* iff some move request of that side would be applied: a game left in
\* progress has an acceptable move, a checkmate or stalemate has none.
C28_ClassificationAgrees ==
    (pc \in {"input", "stopped"} /\ result \in {"InProgress", "CheckmateWin", "Stalemate"})
        => (has_legal_moves(Game(board, SeenTarget(enPassant, tileGame)), currentPlayer)
                <=> SomeRequestApplies)

====
